---- MODULE Spec2Model ----
(***************************************************************************)
(* Model of the speech interaction coordinator of Assistive-Vision         *)
(* (src/src/hooks/useSpeech.ts): the useSpeech hook with its four-valued   *)
(* VoiceState, the speechSynthesis utterances it creates, the recognizer   *)
(* instances it creates, their event handlers and the no-speech timer, and *)
(* the speakAndListen retry loop; of the voice logic App.tsx starts for a   *)
(* page (src/src/App.tsx); of analyzeScene in its two variants             *)
(* (src/src/services/gemini.ts, src/unnamed/part_002) with the             *)
(* POST /api/vision route (src/server.ts); and of parseSpokenNumber.       *)
(*                                                                         *)
(* JavaScript runs one task at a time: every action below is one task (an  *)
(* API call made by a caller, or one platform event with the handler the   *)
(* code attached to it) together with the promise continuations that run   *)
(* in the microtask checkpoint right after it.                             *)
(***************************************************************************)
EXTENDS Integers, Sequences, FiniteSets, TLC

\* ---- bounds of the model ------------------------------------------------
MaxOps == 2          \* speak() and listen() calls a caller makes in one behaviour
MaxRetries == 2      \* largest retries argument of speakAndListen
MaxListens == 2      \* listen() calls before a superseding speak()
MaxSpeaks == 1       \* superseding speak() calls
MaxPageListens == 4  \* listen() calls one runPageLogic run makes before the model stops it
MaxVisRetries == 2   \* largest retries argument of analyzeScene
MaxPieces == 3       \* longest input of parseSpokenNumber, in pieces
MaxMounts == 2       \* mounts of the component that calls useCamera
MaxShots == 2        \* captureImage() calls on one mounted hook
MaxTaps == 3         \* taps on the accessible button

\* ---- program constants --------------------------------------------------
DefaultRetries == 2
DefaultVisRetries == 2   \* analyzeScene(base64Image, prompt, retries = 2)
BackoffMs == 1000        \* setTimeout(r, 1000 * (i + 1))
DOUBLE_TAP_DELAY == 500

VoiceStates == {"IDLE", "SPEAKING", "LISTENING", "PROCESSING"}
LangAnswers == {"yes", "Yes", "no", "1", "2", "3", "4", "5", "0", "one", "21"}
Transcripts == {"hello"} \cup LangAnswers
MicPrompt == "Microphone permission required."
PromptText == "Where to?"
RecErrors == {"no-speech", "network", "audio-capture"}

VARIABLES
  voiceState,      \* stateRef.current (and the voiceState React state)
  transcript,      \* the transcript React state
  recognitionRef,  \* recognitionRef.current: 0 is null, else the listen() call that made it
  calls,           \* one record per listen() call: its promise, recognizer and timer
  utts,            \* one record per SpeechSynthesisUtterance handed to speechSynthesis
  supported,       \* window.SpeechRecognition || window.webkitSpeechRecognition exists
  sl,              \* the running speakAndListen call
  lastOp,          \* history: the task that produced this state
  pg,              \* App: the page and the runPageLogic call started for it
  vis,             \* the running analyzeScene call and the provider it talks to
  pn,              \* the running parseSpokenNumber call
  bt,              \* one accessible button: its lastTapRef, the clock and its taps
  cam              \* the useCamera hook of one mounted component

vars == <<voiceState, transcript, recognitionRef, calls, utts, supported, sl, lastOp,
          pg, vis, pn, bt, cam>>

\* What the tasks of the speech hook never touch.
rest == <<supported, vis, pn, bt, cam>>

\* The hook's mutable state as one value, so that a handler is a function on it.
Cur ==
  [voiceState |-> voiceState, transcript |-> transcript,
   recognitionRef |-> recognitionRef, calls |-> calls, utts |-> utts, sl |-> sl,
   pg |-> pg]

Become(s) ==
  /\ voiceState' = s.voiceState
  /\ transcript' = s.transcript
  /\ recognitionRef' = s.recognitionRef
  /\ calls' = s.calls
  /\ utts' = s.utts
  /\ sl' = s.sl
  /\ pg' = s.pg

NewCall ==
  [perm |-> "pending", rec |-> "none", attached |-> FALSE, timer |-> "none",
   outcome |-> "pending", aborted |-> FALSE]

SlOff == [pc |-> "off", retries |-> 0, i |-> 0, utt |-> 0, call |-> 0,
          speaks |-> 0, listens |-> 0, result |-> "", reasons |-> {}]

PgOff == [page |-> "home", run |-> "home", pc |-> "off", isActive |-> FALSE,
          utt |-> 0, call |-> 0, speaks |-> 0, listens |-> 0, analyses |-> 0,
          dest |-> "", camera |-> "ready", stored |-> "English", written |-> <<>>,
          answers |-> <<>>]

VisOff ==
  [pc |-> "off", variant |-> "direct", cred |-> "valid",
   req |-> [image |-> TRUE, prompt |-> TRUE], retries |-> 0, i |-> 0,
   requests |-> 0, delays |-> <<>>, hist |-> <<>>, result |-> ""]

\* number | null
Null == [null |-> TRUE, n |-> 0]

Num(n) == [null |-> FALSE, n |-> n]

PnOff == [pc |-> "off", text |-> <<>>, result |-> Null]

BtOff == [on |-> FALSE, now |-> 0, lastTapRef |-> 0, taps |-> <<>>]

\* No component that uses useCamera has been mounted; no stream was granted.
CamOff == [insts |-> <<>>, streams |-> <<>>]

\* ---- useSpeech ----------------------------------------------------------

updateState(s, newState) == [s EXCEPT !.voiceState = newState]

\* SpeechRecognition.abort(): a recognizer that was started stops capturing at
\* once; the platform reports it afterwards with an end event.
abort(c) ==
  [c EXCEPT !.rec = IF @ \in {"starting", "running"} THEN "aborting" ELSE @,
            !.aborted = TRUE]

\* stopListening that aborts the handle but forgets recognitionRef.current = null.
stopListeningKeepsRef(s) ==
  LET r == s.recognitionRef
      s1 == IF r # 0
            THEN [s EXCEPT !.calls[r] = abort([@ EXCEPT !.attached = FALSE])]
            ELSE s
  IN IF s1.voiceState = "LISTENING" THEN updateState(s1, "IDLE") ELSE s1

stopListening(s) ==
  LET r == s.recognitionRef
      s1 == IF r # 0
            THEN [s EXCEPT !.calls[r] = abort([@ EXCEPT !.attached = FALSE]),
                           !.recognitionRef = 0]
            ELSE s
  IN IF s1.voiceState = "LISTENING" THEN updateState(s1, "IDLE") ELSE s1

\* speechSynthesis.cancel(): every utterance in the queue is removed; the one
\* being spoken stops.  The platform reports it afterwards with an event.
cancel(s) ==
  [s EXCEPT !.utts = [u \in DOMAIN @ |->
                        IF @[u].st = "active" THEN [@[u] EXCEPT !.st = "cancelled"]
                        ELSE @[u]]]

stopSpeaking(s) ==
  LET s1 == cancel(s)
  IN IF s1.voiceState = "SPEAKING" THEN updateState(s1, "IDLE") ELSE s1

speak(s, text) ==
  LET s1 == stopListening(s)
      s2 == updateState(s1, "SPEAKING")
      s3 == cancel(s2)
  IN [s3 EXCEPT !.utts = Append(@, [st |-> "active", text |-> text])]

\* listen() up to its first await (the getUserMedia permission check).
listen(s) ==
  LET s1 == stopListening(s)
      s2 == updateState(s1, "LISTENING")
  IN [s2 EXCEPT !.calls = Append(@, NewCall)]

\* ---- speakAndListen -----------------------------------------------------

\* A retry test that forgets the no-speech reason.
RetryableWithoutNoSpeech(e) == e \in {"network", "not-allowed"}

\* A retry test that retries whatever the reason.
RetryableAnyReason(e) == TRUE

Retryable(e) == e \in {"no-speech", "network", "not-allowed"}

\* await speak(text) returned: return await listen().
slListen(s) ==
  LET s1 == listen(s)
  IN [s1 EXCEPT !.sl.pc = "awaitListen", !.sl.call = Len(s1.calls),
                !.sl.listens = @ + 1]

\* A loop head that calls listen() without awaiting speak(text).
slLoopNoAwait(s) ==
  IF s.sl.i <= s.sl.retries
  THEN LET s1 == speak(s, PromptText)
       IN slListen([s1 EXCEPT !.sl.utt = Len(s1.utts), !.sl.speaks = @ + 1])
  ELSE [s EXCEPT !.sl.pc = "thrown", !.sl.result = "Max retries reached"]

\* Head of the for loop: the test i <= retries, then await speak(text).
slLoop(s) ==
  IF s.sl.i <= s.sl.retries
  THEN LET s1 == speak(s, PromptText)
       IN [s1 EXCEPT !.sl.pc = "awaitSpeak", !.sl.utt = Len(s1.utts),
                     !.sl.speaks = @ + 1]
  ELSE [s EXCEPT !.sl.pc = "thrown", !.sl.result = "Max retries reached"]

\* A successful listen() after which the loop goes on while the budget lasts.
slReturnAndRetry(s, v) ==
  IF s.sl.i < s.sl.retries THEN slLoop([s EXCEPT !.sl.i = @ + 1])
  ELSE [s EXCEPT !.sl.pc = "returned", !.sl.result = v]

\* return await listen(), when listen() resolved with v
slReturn(s, v) == [s EXCEPT !.sl.pc = "returned", !.sl.result = v]

\* A catch block that throws the loop's final Error when the budget is used up.
slCatchThrowsMax(s, e) ==
  LET s1 == [s EXCEPT !.sl.reasons = @ \cup {e}]
  IN IF Retryable(e) /\ s1.sl.i < s1.sl.retries
     THEN slLoop([s1 EXCEPT !.sl.i = @ + 1])
     ELSE IF Retryable(e)
     THEN [s1 EXCEPT !.sl.pc = "thrown", !.sl.result = "Max retries reached"]
     ELSE [s1 EXCEPT !.sl.pc = "thrown", !.sl.result = e]

\* catch (e): continue on a retryable reason within the budget, else throw e.
slCatch(s, e) ==
  LET s1 == [s EXCEPT !.sl.reasons = @ \cup {e}]
  IN IF Retryable(e) /\ s1.sl.i < s1.sl.retries
     THEN slLoop([s1 EXCEPT !.sl.i = @ + 1])
     ELSE [s1 EXCEPT !.sl.pc = "thrown", !.sl.result = e]

\* ---- App: runPageLogic and the feature handlers -------------------------

LoopPages == {"navigate", "find"}

FeaturePages == {"describe", "currency"}

Pages == LoopPages \cup FeaturePages \cup {"language"}

\* The language a selection 1..5 stands for.
MenuLanguages ==
  [c \in {"1", "2", "3", "4", "5"} |->
     CASE c = "1" -> "Hindi" [] c = "2" -> "Marathi" [] c = "3" -> "Tamil"
       [] c = "4" -> "Telugu" [] c = "5" -> "Bengali"]

\* The lower-case words and the digits a transcript holds.
PartsOf(t) ==
  CASE t \in {"yes", "Yes"} -> {"yes"}
    [] t = "21" -> {"2", "1"}
    [] OTHER -> {t}

\* The camera as the handlers of one page run find it: cameraReady false,
\* captureImage() null, or an image.
CameraStates == {"notReady", "noImage", "ready"}

PageQuestion(page) ==
  IF page = "navigate" THEN "Where do you want to go?" ELSE "What are you looking for?"

PageReprompt(page) ==
  IF page = "navigate" THEN "Please tell me where you want to go."
  ELSE "Please tell me what you are looking for."

PageConfirm(page) ==
  IF page = "navigate" THEN "Navigating to dest. Path clear. Walk forward."
  ELSE "Looking for obj. Scanning area."

PageIntro(page) ==
  IF page = "describe" THEN "Analyzing surroundings."
  ELSE "Show currency in front of camera."

LangQuestion == "Do you want to change language? Say yes or no."

LangMenu == "Say 1 for Hindi. Say 2 for Marathi. Say 3 for Tamil. Say 4 for Telugu. Say 5 for Bengali. Say 0 to cancel."

SceneAnswer == "A chair ahead."

\* The positions at which runPageLogic or a handler awaits speak() or listen().
PgAwaitSpeak ==
  {"awaitQuestion", "awaitReprompt", "awaitConfirm", "awaitIntro",
   "awaitLangQuestion", "awaitMenu", "awaitChanged", "awaitCancelled",
   "awaitRepeat", "awaitResponse"}

PgAwaitListen == {"awaitListen", "awaitAnswer", "awaitNumber"}

\* await speak(text) inside runPageLogic.
pgSpeak(s, text, pc) ==
  LET s1 == speak(s, text)
  IN [s1 EXCEPT !.pg.pc = pc, !.pg.utt = Len(s1.utts), !.pg.speaks = @ + 1]

\* await listen() inside runPageLogic.
pgListen(s, pc) ==
  LET s1 == listen(s)
  IN [s1 EXCEPT !.pg.pc = pc, !.pg.call = Len(s1.calls), !.pg.listens = @ + 1]

\* The cleanup of the page effect: isActive = false; stopListening().
pgCleanup(s) ==
  stopListening([s EXCEPT !.pg.isActive = FALSE, !.pg.page = "home"])

\* setCurrentPage('home'): when the page changes, the effect cleanup runs.
pgGoHome(s) == IF s.pg.page # "home" THEN pgCleanup(s) ELSE s

\* while (isActive) { try { await listen() ...
pgLoop(s) ==
  IF ~s.pg.isActive THEN [s EXCEPT !.pg.pc = "done"]
  ELSE IF s.pg.listens >= MaxPageListens THEN [s EXCEPT !.pg.pc = "capped"]
  ELSE pgListen(s, "awaitListen")

\* handleDescribeScene, handleIdentifyCurrency, handleFindObject up to
\* await analyzeScene(...)
pgHandler(s) ==
  IF s.pg.camera = "notReady"
    THEN LET s1 == speak(s, "Camera unavailable.")
         IN [s1 EXCEPT !.pg.pc = "done", !.pg.speaks = @ + 1]
  ELSE IF s.pg.camera = "noImage" THEN [s EXCEPT !.pg.pc = "done"]
  ELSE [s EXCEPT !.pg.pc = "analyzing", !.pg.analyses = @ + 1]

\* A language page whose finally block does nothing.
pgFinallyStays(s) == [s EXCEPT !.pg.pc = "done"]

\* finally { if (isActive) setCurrentPage('home'); }
pgFinally(s) ==
  LET s1 == IF s.pg.isActive THEN pgGoHome(s) ELSE s
  IN [s1 EXCEPT !.pg.pc = "done"]

\* catch (e) { if (isActive) await speak("Please repeat."); }
pgLangCatch(s) ==
  IF s.pg.isActive THEN pgSpeak(s, "Please repeat.", "awaitRepeat") ELSE pgFinally(s)

\* A selection that falls back to Hindi.
pickLanguageOrHindi(num) ==
  IF "2" \in PartsOf(num) /\ "1" \notin PartsOf(num) THEN "Marathi"
  ELSE IF "3" \in PartsOf(num) THEN "Tamil"
  ELSE IF "4" \in PartsOf(num) THEN "Telugu"
  ELSE IF "5" \in PartsOf(num) THEN "Bengali"
  ELSE "Hindi"

\* if (num.includes('1')) newLang = 'Hindi'; else if (num.includes('2')) ...
pickLanguage(num) ==
  IF "1" \in PartsOf(num) THEN "Hindi"
  ELSE IF "2" \in PartsOf(num) THEN "Marathi"
  ELSE IF "3" \in PartsOf(num) THEN "Tamil"
  ELSE IF "4" \in PartsOf(num) THEN "Telugu"
  ELSE IF "5" \in PartsOf(num) THEN "Bengali"
  ELSE ""

\* runPageLogic up to its first await.
pgStart(s, p) ==
  IF p \in LoopPages THEN pgSpeak(s, PageQuestion(p), "awaitQuestion")
  ELSE IF p = "language" THEN pgSpeak(s, LangQuestion, "awaitLangQuestion")
  ELSE pgSpeak(s, PageIntro(p), "awaitIntro")

\* An awaited speak() of runPageLogic or of a handler returned.
pgSpoken(s) ==
  CASE s.pg.pc \in {"awaitQuestion", "awaitReprompt"} -> pgLoop(s)
    [] s.pg.pc = "awaitConfirm" ->
         IF s.pg.run = "find" THEN pgHandler(s) ELSE [s EXCEPT !.pg.pc = "done"]
    [] s.pg.pc = "awaitIntro" -> pgHandler(s)
    [] s.pg.pc = "awaitLangQuestion" -> pgListen(s, "awaitAnswer")
    [] s.pg.pc = "awaitMenu" -> pgListen(s, "awaitNumber")
    [] s.pg.pc \in {"awaitChanged", "awaitCancelled", "awaitRepeat"} -> pgFinally(s)
    [] s.pg.pc = "awaitResponse" -> [s EXCEPT !.pg.pc = "homeTimer"]
    [] OTHER -> s

\* The awaited listen() of runPageLogic settled with v.
pgHeard(s, v) ==
  CASE s.pg.pc = "awaitListen" ->
         IF v \in Transcripts
         THEN pgSpeak([s EXCEPT !.pg.dest = v], PageConfirm(s.pg.run), "awaitConfirm")
         ELSE IF s.pg.isActive
              THEN pgSpeak(s, PageReprompt(s.pg.run), "awaitReprompt")
              ELSE pgLoop(s)
    [] s.pg.pc = "awaitAnswer" ->
         IF v \in Transcripts
         THEN LET s1 == [s EXCEPT !.pg.answers = Append(@, v)]
              IN IF "yes" \in PartsOf(v) THEN pgSpeak(s1, LangMenu, "awaitMenu")
                 ELSE pgFinally(s1)
         ELSE pgLangCatch(s)
    [] s.pg.pc = "awaitNumber" ->
         IF v \in Transcripts
         THEN LET s1 == [s EXCEPT !.pg.answers = Append(@, v)]
                  newLang == pickLanguage(v)
              IN IF newLang # ""
                 THEN pgSpeak([s1 EXCEPT !.pg.stored = newLang,
                                         !.pg.written = Append(@, newLang)],
                              "Language changed to newLang", "awaitChanged")
                 ELSE pgSpeak(s1, "Cancelled.", "awaitCancelled")
         ELSE pgLangCatch(s)
    [] OTHER -> s

\* ---- promises -----------------------------------------------------------

\* resolve(v) / reject(v) of the promise of listen() call i: the first call
\* settles the promise, later ones are ignored; the continuation of an
\* awaiting speakAndListen runs right after the settling task.
settle(s, i, v) ==
  IF s.calls[i].outcome # "pending" THEN s
  ELSE LET s1 == [s EXCEPT !.calls[i].outcome = v]
       IN IF s1.sl.pc = "awaitListen" /\ s1.sl.call = i
          THEN IF v \in Transcripts
               THEN slReturn(s1, v)
               ELSE slCatch(s1, v)
          ELSE IF s1.pg.pc \in PgAwaitListen /\ s1.pg.call = i
          THEN pgHeard(s1, v)
          ELSE s1

\* resolve() of the promise of speak() for utterance u.
resolveSpeak(s, u) ==
  LET s1 == [s EXCEPT !.utts[u].st = "fired"]
  IN IF s1.sl.pc = "awaitSpeak" /\ s1.sl.utt = u THEN slListen(s1)
     ELSE IF s1.pg.pc \in PgAwaitSpeak /\ s1.pg.utt = u
     THEN pgSpoken(s1)
     ELSE s1

\* utterance.onend and utterance.onerror (the same body).
utteranceDone(s, u) ==
  LET s1 == IF s.voiceState = "SPEAKING" THEN updateState(s, "IDLE") ELSE s
  IN resolveSpeak(s1, u)

\* ---- listen(): after the permission check -------------------------------

\* A denial path that rejects without speaking the prompt.
listenDeniedSilently(s, i) ==
  LET s1 == updateState([s EXCEPT !.calls[i].perm = "denied"], "IDLE")
  IN settle(s1, i, "audio-capture")

listenDenied(s, i) ==
  LET s1 == updateState([s EXCEPT !.calls[i].perm = "denied"], "IDLE")
      s2 == speak(s1, MicPrompt)
  IN settle(s2, i, "audio-capture")

\* An unsupported runtime in which listen() goes on to create a recognizer.
listenUnsupportedCreates(s, i) ==
  [s EXCEPT !.calls[i].perm = "granted", !.calls[i].attached = TRUE,
            !.calls[i].rec = "starting", !.recognitionRef = i]

\* if (!SpeechRecognition) { updateState('IDLE'); reject(...); return; }
listenUnsupported(s, i) ==
  LET s1 == updateState([s EXCEPT !.calls[i].perm = "granted"], "IDLE")
  IN settle(s1, i, "Speech recognition not supported")

\* new SpeechRecognition(), recognitionRef.current = recognition, the handlers
\* are attached, recognition.start().
listenStart(s, i, startThrows) ==
  LET s1 == [s EXCEPT !.calls[i].perm = "granted", !.calls[i].attached = TRUE,
                      !.recognitionRef = i]
  IN IF startThrows
     THEN settle(updateState([s1 EXCEPT !.calls[i].rec = "failed"], "IDLE"),
                 i, "start-failed")
     ELSE [s1 EXCEPT !.calls[i].rec = "starting"]

clearTimeout(s, i) ==
  [s EXCEPT !.calls[i].timer = IF @ = "armed" THEN "cleared" ELSE @]

onstart(s, i) ==
  IF s.voiceState # "LISTENING"
  THEN [s EXCEPT !.calls[i] = abort([@ EXCEPT !.rec = "running"])]
  ELSE [s EXCEPT !.calls[i].rec = "running", !.calls[i].timer = "armed"]

\* The setTimeout callback armed by onstart.
onTimeout(s, i) ==
  LET s1 == [s EXCEPT !.calls[i].timer = "fired"]
  IN IF s1.voiceState = "LISTENING"
     THEN settle([s1 EXCEPT !.calls[i] = abort(@)], i, "no-speech")
     ELSE s1

\* A result handler without the test of the state.
onresultInAnyState(s, i, t) ==
  LET s1 == clearTimeout(s, i)
  IN settle(updateState([s1 EXCEPT !.transcript = t], "PROCESSING"), i, t)

onresult(s, i, t) ==
  LET s1 == clearTimeout(s, i)
  IN IF s1.voiceState # "LISTENING" THEN s1
     ELSE settle(updateState([s1 EXCEPT !.transcript = t], "PROCESSING"), i, t)

onerror(s, i, e) ==
  LET s1 == clearTimeout(s, i)
  IN IF s1.voiceState # "LISTENING" THEN s1
     ELSE settle(updateState(s1, "IDLE"), i, e)

onend(s, i) ==
  LET s1 == clearTimeout(s, i)
  IN IF s1.voiceState = "LISTENING"
     THEN settle(updateState(s1, "IDLE"), i, "no-speech")
     ELSE s1

\* ---- initial state ------------------------------------------------------

InitHook ==
  /\ voiceState = "IDLE"
  /\ transcript = ""
  /\ recognitionRef = 0
  /\ calls = <<>>
  /\ utts = <<>>
  /\ supported \in BOOLEAN
  /\ lastOp = [op |-> "init", from |-> "-", hadRef |-> FALSE]

Init ==
  /\ InitHook
  /\ sl = SlOff
  /\ pg = PgOff
  /\ vis = VisOff
  /\ pn = PnOff
  /\ bt = BtOff
  /\ cam = CamOff

\* lastOp names the caller's last API call (and, for the stop calls, the state
\* it was made in and whether recognitionRef held a handle); a platform event
\* is recorded as "event".
Op(name, id) ==
  lastOp' = [op |-> IF name \in {"speak", "listen", "stopListening", "stopSpeaking",
                                 "cleanup", "speakAndListen"}
                   THEN name ELSE "event",
             from |-> IF name \in {"stopListening", "stopSpeaking", "cleanup"}
                      THEN voiceState ELSE "-",
             hadRef |-> name \in {"stopListening", "stopSpeaking", "cleanup"}
                        /\ recognitionRef # 0]

\* The speak() and listen() calls made so far by the caller (the utterances
\* that listen() itself speaks on a denied permission are not the caller's).
Ops == Len(calls) + Cardinality({u \in DOMAIN utts : utts[u].text # MicPrompt})

\* ---- the caller's API calls ---------------------------------------------

CallSpeak ==
  /\ Ops < MaxOps
  /\ Become(speak(Cur, PromptText))
  /\ Op("speak", Len(utts) + 1)
  /\ UNCHANGED rest

CallListen ==
  /\ Ops < MaxOps
  /\ Become(listen(Cur))
  /\ Op("listen", Len(calls) + 1)
  /\ UNCHANGED rest

CallStopListening ==
  /\ Become(stopListening(Cur))
  /\ Op("stopListening", 0)
  /\ UNCHANGED rest

CallStopSpeaking ==
  /\ Become(stopSpeaking(Cur))
  /\ Op("stopSpeaking", 0)
  /\ UNCHANGED rest

\* The effect cleanup of the hook: stopListening(); stopSpeaking().
Cleanup ==
  /\ Become(stopSpeaking(stopListening(Cur)))
  /\ Op("cleanup", 0)
  /\ UNCHANGED rest

\* ---- platform events ----------------------------------------------------
\* An event is a task only when the code has a handler attached for it: the
\* events of a recognizer whose handlers stopListening has detached run no
\* code and are left out.

\* The utterance being synthesized finishes (end) or fails (error).
UtteranceEnd ==
  \E u \in DOMAIN utts :
    /\ utts[u].st = "active"
    /\ Become(utteranceDone(Cur, u))
    /\ Op("utteranceEnd", u)
    /\ UNCHANGED rest

\* The platform reports a cancelled utterance (error "interrupted"/"canceled",
\* or end) after the cancel() call that removed it.
UtteranceCancelled ==
  \E u \in DOMAIN utts :
    /\ utts[u].st = "cancelled"
    /\ Become(utteranceDone(Cur, u))
    /\ Op("utteranceCancelled", u)
    /\ UNCHANGED rest

PermissionDenied ==
  \E i \in DOMAIN calls :
    /\ calls[i].perm = "pending"
    /\ Become(listenDenied(Cur, i))
    /\ Op("permissionDenied", i)
    /\ UNCHANGED rest

PermissionGranted ==
  \E i \in DOMAIN calls :
    /\ calls[i].perm = "pending"
    /\ \/ ~supported /\ Become(listenUnsupported(Cur, i))
       \/ supported /\ \E startThrows \in BOOLEAN : Become(listenStart(Cur, i, startThrows))
    /\ Op("permissionGranted", i)
    /\ UNCHANGED rest

\* onstart is never detached by stopListening.
RecStart ==
  \E i \in DOMAIN calls :
    /\ calls[i].rec = "starting"
    /\ Become(onstart(Cur, i))
    /\ Op("onstart", i)
    /\ UNCHANGED rest

TimerFires ==
  \E i \in DOMAIN calls :
    /\ calls[i].timer = "armed"
    /\ Become(onTimeout(Cur, i))
    /\ Op("timeout", i)
    /\ UNCHANGED rest

\* A result event; with continuous = false the recognizer then ends.
RecResultOf(i, t) ==
  /\ calls[i].rec = "running"
  /\ calls[i].attached
  /\ Become(onresult([Cur EXCEPT !.calls[i].rec = "ending"], i, t))
  /\ Op("onresult", i)
  /\ UNCHANGED rest

\* What the user can be heard saying: an answer to the language page's
\* questions while that page is open, else some phrase.
Heard == IF pg.page = "language" THEN LangAnswers ELSE {"hello"}

RecResult == \E i \in DOMAIN calls, t \in Heard : RecResultOf(i, t)

\* An error event: a recognizer error while starting or running, or the
\* "aborted" error some platforms report after abort().
RecErrorOf(i, e) ==
  /\ calls[i].rec \in {"starting", "running", "aborting"}
  /\ calls[i].attached
  /\ Become(onerror([Cur EXCEPT !.calls[i].rec = "ending"], i, e))
  /\ Op("onerror", i)
  /\ UNCHANGED rest

RecError ==
  \E i \in DOMAIN calls :
    \E e \in (IF calls[i].rec = "aborting" THEN {"aborted"} ELSE RecErrors) :
      RecErrorOf(i, e)

\* The end event that closes every started recognition session.
RecEndOf(i) ==
  /\ calls[i].rec \in {"running", "aborting", "ending"}
  /\ calls[i].attached
  /\ Become(onend([Cur EXCEPT !.calls[i].rec = "ended"], i))
  /\ Op("onend", i)
  /\ UNCHANGED rest

RecEnd == \E i \in DOMAIN calls : RecEndOf(i)

Platform ==
  \/ UtteranceEnd
  \/ PermissionDenied
  \/ PermissionGranted
  \/ RecStart
  \/ TimerFires
  \/ RecResult
  \/ RecError
  \/ RecEnd

Next ==
  \/ CallSpeak
  \/ CallListen
  \/ CallStopListening
  \/ CallStopSpeaking
  \/ Cleanup
  \/ UtteranceCancelled
  \/ Platform

Spec == Init /\ [][Next]_vars

\* ---- speakAndListen as the only caller ----------------------------------

InitSL ==
  /\ InitHook
  /\ \E r \in -1..MaxRetries :
       sl = [SlOff EXCEPT !.pc = "start", !.retries = r]
  /\ pg = PgOff
  /\ vis = VisOff
  /\ pn = PnOff
  /\ bt = BtOff
  /\ cam = CamOff

SLStart ==
  /\ sl.pc = "start"
  /\ Become(slLoop(Cur))
  /\ Op("speakAndListen", 0)
  /\ UNCHANGED rest

NextSL ==
  \/ SLStart
  \/ Platform

SpecSL == InitSL /\ [][NextSL]_vars

\* ---- properties ---------------------------------------------------------

SynthesisActive == \E u \in DOMAIN utts : utts[u].st = "active"

\* Recognizers capturing audio (onstart fired, not yet aborted or ended).
Capturing == {i \in DOMAIN calls : calls[i].rec = "running"}

\* Recognizers on which start() succeeded and that were neither aborted nor ended.
Started == {i \in DOMAIN calls : calls[i].rec \in {"starting", "running"}}

RecognitionActive == Capturing # {}

Prompts == Cardinality({u \in DOMAIN utts : utts[u].text = MicPrompt})

\* The step in which the permission check of listen() call i fails.
DenialOf(i) == calls[i].perm = "pending" /\ calls'[i].perm = "denied"

\* C1: for every interleaving of speak() and listen() calls, an utterance
\* being synthesized and a recognition attempt are never active together.
C1_NoOverlap == ~(SynthesisActive /\ RecognitionActive)

\* C2: listen() called while the state is SPEAKING cancels the in-flight
\* utterance at once and makes the state LISTENING, so no utterance is being
\* synthesized once the state is LISTENING.
C2_ListenCancelsSpeech ==
  [][(CallListen /\ voiceState = "SPEAKING")
       => (voiceState' = "LISTENING" /\ ~SynthesisActive')]_vars

\* C3: at most one recognition attempt is active at any time: no two
\* recognizers are started without the earlier one having been aborted.
C3_OneRecognizer == Cardinality(Started) <= 1

\* C4: a listen() whose recognizer delivers no event before the no-speech
\* timeout rejects with 'no-speech' and the state returns to IDLE with the
\* timeout; a recognizer event after the timeout changes neither the
\* settlement nor the state.
C4_TimeoutReturnsToIdle ==
  [][\A i \in DOMAIN calls :
       /\ (calls[i].timer = "armed" /\ calls'[i].timer = "fired"
             /\ calls[i].outcome = "pending" /\ voiceState = "LISTENING")
            => (calls'[i].outcome = "no-speech" /\ voiceState' = "IDLE")
       /\ (calls[i].timer = "fired" /\ calls[i].outcome = "no-speech"
             /\ calls'[i].rec # calls[i].rec)
            => (voiceState' = voiceState /\ calls'[i].outcome = calls[i].outcome)]_vars

\* C5: speakAndListen(text, retries) whose every listen() fails with
\* 'no-speech' performs exactly retries+1 speak+listen cycles (never more
\* while it runs) and fails when the budget is exhausted (i = retries).
C5_ExactCycles ==
  (sl.pc # "off" /\ sl.reasons \subseteq {"no-speech"})
    => /\ sl.speaks <= sl.retries + 1
       /\ sl.listens <= sl.speaks
       /\ (sl.pc = "thrown" /\ sl.reasons # {})
            => (sl.speaks = sl.retries + 1 /\ sl.listens = sl.retries + 1
                /\ sl.i = sl.retries)

C5_Witness ==
  /\ sl.pc = "thrown"
  /\ sl.reasons = {"no-speech"}
  /\ sl.retries = DefaultRetries
  /\ sl.speaks = 3
  /\ sl.listens = 3

\* C6 as stated: on a denied microphone listen() speaks the prompt exactly
\* once, rejects with 'audio-capture', and the state is never LISTENING
\* during that call (in particular not when the permission check fails).
C6_NeverListening ==
  [][\A i \in DOMAIN calls :
       DenialOf(i) => (voiceState # "LISTENING" /\ Prompts' = Prompts + 1
                       /\ calls'[i].outcome = "audio-capture")]_vars

\* C6 amended: listen() sets the state to LISTENING when it is called; when
\* the permission check then fails it speaks the prompt exactly once (and
\* the prompt is spoken by no other step), rejects with 'audio-capture',
\* leaves the state SPEAKING, and the denied call never gets a recognizer.
C6_DeniedPrompts ==
  [][/\ CallListen => voiceState' = "LISTENING"
     /\ \A i \in DOMAIN calls :
          DenialOf(i) => (Prompts' = Prompts + 1 /\ voiceState' = "SPEAKING"
                          /\ calls'[i].outcome = "audio-capture")
     /\ (\A i \in DOMAIN calls : ~DenialOf(i)) => Prompts' = Prompts
     /\ \A i \in DOMAIN calls' :
          calls'[i].perm = "denied"
            => (calls'[i].rec = "none" /\ ~calls'[i].attached
                /\ calls'[i].outcome = "audio-capture")]_vars

C6_Witness ==
  \E i \in DOMAIN calls :
    /\ calls[i].perm = "denied"
    /\ calls[i].outcome = "audio-capture"
    /\ Prompts = 1
    /\ voiceState = "SPEAKING"

\* C7: stopListening() and stopSpeaking(), called from any state, leave the
\* state IDLE with no utterance and no recognition attempt in flight (stated
\* for the two called together, as the hook's cleanup does).
C7_StopForcesIdle ==
  lastOp.op = "cleanup"
    => (voiceState = "IDLE" /\ ~SynthesisActive /\ Started = {})

AttemptOver(c) == c.rec \in {"ending", "ended"} \/ (c.perm = "granted" /\ ~c.attached)

\* C9: the no-speech timer of an attempt is cleared when the attempt ends by
\* any other path, and the timer of an ended attempt never rejects a promise
\* or aborts a recognizer.
C9_TimerCleared ==
  [][\A i \in DOMAIN calls :
       /\ AttemptOver(calls'[i]) => calls'[i].timer # "armed"
       /\ (AttemptOver(calls[i]) /\ calls[i].timer = "armed"
             /\ calls'[i].timer = "fired")
            => calls' = [calls EXCEPT ![i].timer = "fired"]]_vars

\* C10: the end/error callback of an utterance cancelled by a later speak()
\* never changes the state while the newer utterance is being synthesized.
C10_StaleUtteranceCallback ==
  [][(UtteranceCancelled /\ SynthesisActive) => voiceState' = voiceState]_vars

\* ---- speak() superseding concurrent listen() calls ----------------------

CallerSpeaks == Cardinality({u \in DOMAIN utts : utts[u].text = PromptText})

SupListen ==
  /\ Len(calls) < MaxListens
  /\ Become(listen(Cur))
  /\ Op("listen", Len(calls) + 1)
  /\ UNCHANGED rest

SupSpeak ==
  /\ CallerSpeaks < MaxSpeaks
  /\ Become(speak(Cur, PromptText))
  /\ Op("speak", Len(utts) + 1)
  /\ UNCHANGED rest

NextSup ==
  \/ SupListen
  \/ SupSpeak
  \/ UtteranceCancelled
  \/ Platform

SpecSup == Init /\ [][NextSup]_vars

\* ---- App: a page is opened and left ------------------------------------

\* setCurrentPage(p): the page effect runs runPageLogic up to its first await.
OpenPageOf(p, c) ==
  /\ pg.pc = "off"
  /\ Become(pgStart([Cur EXCEPT !.pg.page = p, !.pg.run = p, !.pg.isActive = TRUE,
                                !.pg.camera = c], p))
  /\ Op("openPage", 0)
  /\ UNCHANGED rest

\* The camera matters to the pages that run a feature handler.
OpenPage ==
  \E p \in Pages, c \in CameraStates :
    /\ p \in {"navigate", "language"} => c = "ready"
    /\ OpenPageOf(p, c)

\* The user leaves the page: the effect cleanup sets isActive = false and
\* calls stopListening().
LeavePage ==
  /\ pg.page # "home"
  /\ pg.isActive
  /\ Become(pgCleanup(Cur))
  /\ Op("leavePage", 0)
  /\ UNCHANGED rest

\* analyzeScene returns: setStatus(response); await speak(response).
AnalysisReturns ==
  /\ pg.pc = "analyzing"
  /\ Become(pgSpeak(Cur, SceneAnswer, "awaitResponse"))
  /\ Op("analysisReturns", 0)
  /\ UNCHANGED rest

\* analyzeScene throws: catch { speak("Service unavailable."); } and the
\* handler ends.
AnalysisFails ==
  /\ pg.pc = "analyzing"
  /\ Become([speak(Cur, "Service unavailable.") EXCEPT !.pg.pc = "done",
                                                      !.pg.speaks = @ + 1])
  /\ Op("analysisFails", 0)
  /\ UNCHANGED rest

\* setTimeout(() => setCurrentPage('home'), 1000) fires.
HomeTimerFires ==
  /\ pg.pc = "homeTimer"
  /\ Become([pgGoHome(Cur) EXCEPT !.pg.pc = "done"])
  /\ Op("homeTimer", 0)
  /\ UNCHANGED rest

NextPage ==
  \/ OpenPage
  \/ LeavePage
  \/ AnalysisReturns
  \/ AnalysisFails
  \/ HomeTimerFires
  \/ UtteranceCancelled
  \/ Platform

SpecPage == Init /\ [][NextPage]_vars

\* ---- App: the language page alone ---------------------------------------

OpenLanguage == OpenPageOf("language", "ready")

NextLang ==
  \/ OpenLanguage
  \/ LeavePage
  \/ UtteranceCancelled
  \/ Platform

SpecLang == Init /\ [][NextLang]_vars

\* ---- analyzeScene and POST /api/vision ----------------------------------

\* What the hook, speakAndListen and the page logic own.
speechVars == <<voiceState, transcript, recognitionRef, calls, utts, supported, sl,
                lastOp, pg>>

MsgKeyMissing == "Vision API key invalid or missing."
MsgKeyInvalid == "Vision API key invalid."
MsgRateLimit == "Vision service rate limit exceeded."
MsgUnavailable == "Vision service temporarily unavailable."
MsgNoAnalysis == "I couldn't analyze the scene."
MsgBadRequest == "Image and prompt are required."
MsgTimedOut == "Network connection issue. Request timed out."
MsgNetwork == "Network connection issue."
MsgFallThrough == "Error connecting to the vision service."

\* What ai.models.generateContent does: it resolves with a response whose
\* text may be empty, or it throws an error with a status (0: none) and a
\* message, of which only the substrings the code looks for are kept.
SceneTexts == {"A chair ahead."}

ProviderOk == [kind : {"ok"}, status : {200}, msg : {{}}, text : SceneTexts \cup {""}]

ProviderError(status, msg) ==
  [kind |-> "err", status |-> status, msg |-> msg, text |-> ""]

\* The provider refuses the credential.
ProviderAuthErrors ==
  {ProviderError(401, {"401"}), ProviderError(400, {"API key not valid"})}

\* Rate limiting (with and without a status field), a server error, and a
\* failure without status (no connection).
ProviderOtherErrors ==
  {ProviderError(429, {"429", "quota"}), ProviderError(0, {"429"}),
   ProviderError(500, {}), ProviderError(0, {})}

NoProvider == [kind |-> "none", status |-> 0, msg |-> {}, text |-> ""]

\* An invalid credential is refused on every call; a valid one never is.
ProviderOutcomes(cred) ==
  IF cred = "invalid" THEN ProviderAuthErrors ELSE ProviderOk \cup ProviderOtherErrors

\* What the client's await yields: a response, or a thrown error.
Respond(status, json, error, text) ==
  [kind |-> "response", name |-> "", status |-> status, json |-> json,
   error |-> error, text |-> text]

Thrown(name) ==
  [kind |-> "throw", name |-> name, status |-> 0, json |-> FALSE,
   error |-> "", text |-> ""]

\* server.ts: the catch block's rate-limit test.
serverRateLimitedNever(err) == FALSE

serverRateLimited(err) == err.status = 429 \/ "429" \in err.msg

\* A route that calls the provider before it looks at the body.
routeCallsProviderBeforeBody(hasKey, req) == hasKey

\* server.ts: the provider is called after both early returns.
routeCallsProvider(hasKey, req) == hasKey /\ req.image /\ req.prompt

\* server.ts, POST /api/vision: the responses the handler sends, in order.
visionRoute(hasKey, req, prov) ==
  IF ~hasKey THEN <<Respond(401, TRUE, MsgKeyMissing, "")>>
  ELSE IF ~req.image \/ ~req.prompt THEN <<Respond(400, TRUE, MsgBadRequest, "")>>
  ELSE IF prov.kind = "ok"
    THEN <<Respond(200, TRUE, "", IF prov.text = "" THEN MsgNoAnalysis ELSE prov.text)>>
  ELSE IF serverRateLimited(prov) THEN <<Respond(429, TRUE, MsgRateLimit, "")>>
  ELSE <<Respond(500, TRUE, MsgUnavailable, "")>>

\* gemini.ts: the two tests of the catch block.
isAuthErrorNever(err) == FALSE

isAuthError(err) ==
  err.status = 401 \/ "401" \in err.msg \/ "API key not valid" \in err.msg

isRateError(err) == err.status = 429 \/ "429" \in err.msg \/ "quota" \in err.msg

\* A backoff that waits the same time before every retry.
visBackoffConstant(v) ==
  [v EXCEPT !.pc = "backoff", !.delays = Append(@, BackoffMs)]

\* await new Promise(r => setTimeout(r, 1000 * (i + 1))); continue
visBackoff(v) ==
  [v EXCEPT !.pc = "backoff", !.delays = Append(@, BackoffMs * (v.i + 1))]

visReturn(v, text) == [v EXCEPT !.pc = "done", !.result = text]

\* for (let i = 0; i <= retries; i++) ... and the return after the loop
visLoop(v) ==
  IF v.i <= v.retries THEN [v EXCEPT !.pc = "request"]
  ELSE visReturn(v, MsgFallThrough)

\* gemini.ts: analyzeScene up to its first request
directStart(v) ==
  IF v.cred = "missing" THEN visReturn(v, MsgKeyMissing) ELSE visLoop(v)

directCatch(v, err) ==
  IF isAuthError(err) THEN visReturn(v, MsgKeyInvalid)
  ELSE IF isRateError(err)
    THEN IF v.i < v.retries THEN visBackoff(v) ELSE visReturn(v, MsgRateLimit)
  ELSE IF v.i < v.retries THEN visBackoff(v)
  ELSE visReturn(v, MsgUnavailable)

\* gemini.ts: one iteration of the loop, given what generateContent did
directAttempt(v, prov) ==
  IF prov.kind = "ok"
    THEN visReturn(v, IF prov.text = "" THEN MsgNoAnalysis ELSE prov.text)
  ELSE directCatch(v, prov)

\* part_002: the message of a response that is not ok
proxyErrorMessage(resp) ==
  IF resp.json
    THEN IF resp.error # "" THEN resp.error ELSE MsgUnavailable
  ELSE IF resp.status = 401 THEN MsgKeyInvalid
  ELSE IF resp.status = 429 THEN MsgRateLimit
  ELSE MsgUnavailable

\* part_002: the outer catch block
proxyCatch(v, name) ==
  IF v.i < v.retries THEN visBackoff(v)
  ELSE IF name = "AbortError" THEN visReturn(v, MsgTimedOut)
  ELSE visReturn(v, MsgNetwork)

\* part_002: one iteration of the loop, given what fetch did
proxyAttempt(v, got) ==
  IF got.kind = "throw" THEN proxyCatch(v, got.name)
  ELSE IF got.status \notin 200..299
    THEN IF v.i < v.retries /\ got.status # 401 THEN visBackoff(v)
         ELSE visReturn(v, proxyErrorMessage(got))
  ELSE IF ~got.json THEN proxyCatch(v, "SyntaxError")
  ELSE visReturn(v, IF got.text = "" THEN MsgNoAnalysis ELSE got.text)

\* One request of the running call, for the record: whether it reached the
\* route, what the provider did there, what the route sent and what the
\* client's await yielded.
Logged(v, reached, prov, sent, got) ==
  [v EXCEPT !.requests = @ + 1,
            !.hist = Append(@, [reached |-> reached, prov |-> prov,
                                sent |-> sent, got |-> got])]

VisionCalls ==
  [pc : {"start"}, variant : {"direct"}, cred : {"valid", "missing", "invalid"},
   req : {[image |-> TRUE, prompt |-> TRUE]}, retries : -1..MaxVisRetries,
   i : {0}, requests : {0}, delays : {<<>>}, hist : {<<>>}, result : {""}]
  \cup
  [pc : {"start"}, variant : {"proxy"}, cred : {"valid", "missing", "invalid"},
   req : [image : BOOLEAN, prompt : BOOLEAN], retries : -1..MaxVisRetries,
   i : {0}, requests : {0}, delays : {<<>>}, hist : {<<>>}, result : {""}]

InitVision ==
  /\ InitHook
  /\ sl = SlOff
  /\ pg = PgOff
  /\ vis \in VisionCalls
  /\ pn = PnOff
  /\ bt = BtOff
  /\ cam = CamOff

VisStart ==
  /\ vis.pc = "start"
  /\ vis' = IF vis.variant = "direct" THEN directStart(vis) ELSE visLoop(vis)
  /\ UNCHANGED <<speechVars, pn, bt, cam>>

\* gemini.ts: the SDK call of one iteration settles.
DirectRequest ==
  /\ vis.pc = "request"
  /\ vis.variant = "direct"
  /\ \E prov \in ProviderOutcomes(vis.cred) :
       vis' = directAttempt(
                Logged(vis, FALSE, prov, <<>>,
                       IF prov.kind = "ok" THEN Respond(200, TRUE, "", prov.text)
                       ELSE Thrown("ApiError")),
                prov)
  /\ UNCHANGED <<speechVars, pn, bt, cam>>

\* The provider outcomes the route can meet for the running call's request.
RouteProvider ==
  IF routeCallsProvider(vis.cred # "missing", vis.req)
    THEN ProviderOutcomes(vis.cred) ELSE {NoProvider}

\* part_002 and server.ts: the request reaches the route and its response
\* reaches the client.
ProxyDelivered ==
  /\ vis.pc = "request"
  /\ vis.variant = "proxy"
  /\ \E prov \in RouteProvider :
       LET sent == visionRoute(vis.cred # "missing", vis.req, prov)
           got == IF sent = <<>> THEN Thrown("AbortError") ELSE sent[1]
       IN vis' = proxyAttempt(Logged(vis, TRUE, prov, sent, got), got)
  /\ UNCHANGED <<speechVars, pn, bt, cam>>

\* The route answers after the client's 10 s timer has aborted the fetch.
ProxyTimedOut ==
  /\ vis.pc = "request"
  /\ vis.variant = "proxy"
  /\ \E prov \in RouteProvider :
       LET sent == visionRoute(vis.cred # "missing", vis.req, prov)
           got == Thrown("AbortError")
       IN vis' = proxyAttempt(Logged(vis, TRUE, prov, sent, got), got)
  /\ UNCHANGED <<speechVars, pn, bt, cam>>

\* fetch rejects: the request never reached the route.
ProxyFailed ==
  /\ vis.pc = "request"
  /\ vis.variant = "proxy"
  /\ LET got == Thrown("TypeError")
     IN vis' = proxyAttempt(Logged(vis, FALSE, NoProvider, <<>>, got), got)
  /\ UNCHANGED <<speechVars, pn, bt, cam>>

\* Something in front of the route answers in its place, with a body that
\* is not JSON.
GatewayStatuses == {200, 401, 429, 500, 502}

ProxyGateway ==
  /\ vis.pc = "request"
  /\ vis.variant = "proxy"
  /\ \E s \in GatewayStatuses :
       LET got == Respond(s, FALSE, "", "")
       IN vis' = proxyAttempt(Logged(vis, FALSE, NoProvider, <<>>, got), got)
  /\ UNCHANGED <<speechVars, pn, bt, cam>>

\* The backoff timer fires: i++ and the loop test.
BackoffElapsed ==
  /\ vis.pc = "backoff"
  /\ vis' = visLoop([vis EXCEPT !.i = @ + 1])
  /\ UNCHANGED <<speechVars, pn, bt, cam>>

NextVision ==
  \/ VisStart
  \/ DirectRequest
  \/ ProxyDelivered
  \/ ProxyTimedOut
  \/ ProxyFailed
  \/ ProxyGateway
  \/ BackoffElapsed

SpecVision == InitVision /\ [][NextVision]_vars

\* ---- parseSpokenNumber --------------------------------------------------

\* A text is a sequence of pieces: a piece is a run of characters that are
\* all word characters ([A-Za-z0-9_]) or all other characters.  The
\* Devanagari words of the patterns are written by their code points.
DevaEk == "u090F_u0915"
DevaDo == "u0926_u094B"
DevaTeen == "u0924_u0940_u0928"
DevaChar == "u091A_u093E_u0930"
DevaPanch == "u092A_u093E_u0902_u091A"
DevaShunya == "u0936_u0942_u0928_u094D_u092F"
DevaSeven == "u096D"

\* The alternatives of the six patterns, by the number they stand for.
Tokens ==
  [n \in 0..5 |->
     CASE n = 1 -> {"1", "one", "ek", DevaEk, "first"}
       [] n = 2 -> {"2", "two", "do", DevaDo, "second"}
       [] n = 3 -> {"3", "three", "teen", DevaTeen, "third"}
       [] n = 4 -> {"4", "four", "char", DevaChar, "fourth"}
       [] n = 5 -> {"5", "five", "panch", DevaPanch, "fifth"}
       [] n = 0 -> {"0", "zero", "shunya", DevaShunya, "cancel"}]

\* The order in which the patterns are tried.
PatternOrder == <<1, 2, 3, 4, 5, 0>>

\* \d and parseInt(match[0], 10)
DigitValue ==
  [c \in {"0", "1", "2", "3", "4", "5", "6", "7", "8", "9"} |->
     CASE c = "0" -> 0 [] c = "1" -> 1 [] c = "2" -> 2 [] c = "3" -> 3
       [] c = "4" -> 4 [] c = "5" -> 5 [] c = "6" -> 6 [] c = "7" -> 7
       [] c = "8" -> 8 [] c = "9" -> 9]

\* The pieces the inputs are made of: some alternatives of every pattern, a
\* word in capitals, a letter and a digit that belong to no pattern, a
\* Devanagari digit and the space.
NonWordPieces ==
  {" ", DevaEk, DevaDo, DevaTeen, DevaChar, DevaPanch, DevaShunya, DevaSeven}

InputPieces ==
  {"1", "2", "3", "4", "5", "0", "7", "one", "two", "do", "second", "three",
   "four", "five", "zero", "cancel", "TWO", "x", " ",
   DevaEk, DevaDo, DevaShunya, DevaSeven}

Texts == UNION {[1..n -> InputPieces] : n \in 0..MaxPieces}

\* \w of a pattern without the u flag: ASCII letters, digits and _.
IsWord(p) == p \notin NonWordPieces

\* text.toLowerCase()
toLowerCase(text) ==
  [k \in DOMAIN text |-> IF text[k] = "TWO" THEN "two" ELSE text[k]]

\* .trim()
trim(text) ==
  LET solid == {k \in DOMAIN text : text[k] # " "}
  IN IF solid = {} THEN <<>>
     ELSE LET a == CHOOSE k \in solid : \A j \in solid : k <= j
              b == CHOOSE k \in solid : \A j \in solid : k >= j
          IN SubSeq(text, a, b)

\* \b between piece k and piece k + 1 (0 and Len + 1: outside the text)
boundary(text, k) ==
  LET w(j) == j \in DOMAIN text /\ IsWord(text[j])
  IN w(k) # w(k + 1)

\* lower.match(/\b(...)\b/) for the pattern of number n
matches(lower, n) ==
  \E k \in DOMAIN lower :
    /\ lower[k] \in Tokens[n]
    /\ boundary(lower, k - 1)
    /\ boundary(lower, k)

parseSpokenNumber(text) ==
  LET lower == trim(toLowerCase(text))
      hits == {j \in DOMAIN PatternOrder : matches(lower, PatternOrder[j])}
      digits == {k \in DOMAIN lower : lower[k] \in DOMAIN DigitValue}
  IN IF hits # {}
       THEN Num(PatternOrder[CHOOSE j \in hits : \A i \in hits : j <= i])
     ELSE IF digits # {}
       THEN Num(DigitValue[lower[CHOOSE k \in digits : \A i \in digits : k <= i]])
     ELSE Null

InitParse ==
  /\ InitHook
  /\ supported
  /\ sl = SlOff
  /\ pg = PgOff
  /\ vis = VisOff
  /\ \E text \in Texts : pn = [pc |-> "start", text |-> text, result |-> Null]
  /\ bt = BtOff
  /\ cam = CamOff

Parse ==
  /\ pn.pc = "start"
  /\ pn' = [pn EXCEPT !.pc = "done", !.result = parseSpokenNumber(pn.text)]
  /\ UNCHANGED <<speechVars, vis, bt, cam>>

NextParse == Parse

SpecParse == InitParse /\ [][NextParse]_vars

\* ---- useAccessibleButton ------------------------------------------------

ButtonLabel == "Navigate"

\* Date.now() when the button is mounted, and the time from one tap (or from
\* mounting) to the next, in ms.  Date.now() counts from 1970, so that no tap
\* is earlier than DOUBLE_TAP_DELAY.
StartTimes == {500, 1000}

Gaps == {0, 250, 499, 500, 750}

\* A double-tap test that still accepts a tap DOUBLE_TAP_DELAY after the last.
withinDoubleTapInclusive(now, last) == now - last <= DOUBLE_TAP_DELAY

\* now - lastTapRef.current < DOUBLE_TAP_DELAY
withinDoubleTap(now, last) == now - last < DOUBLE_TAP_DELAY

\* An activation that leaves lastTapRef as it was.
activateKeepsLastTap(b) ==
  [b EXCEPT !.taps = Append(@, [at |-> b.now, calls |-> {"onActivate"}])]

\* navigator.vibrate([50]); onActivate(); lastTapRef.current = 0
activate(b) ==
  [b EXCEPT !.taps = Append(@, [at |-> b.now, calls |-> {"onActivate"}]),
            !.lastTapRef = 0]

\* speak(label); lastTapRef.current = now  (the speak() call itself is made
\* on the hook's state by the action)
announce(b) ==
  [b EXCEPT !.taps = Append(@, [at |-> b.now, calls |-> {"speak"}]),
            !.lastTapRef = b.now]

\* handleTap at time now
handleTap(b, now) ==
  LET b1 == [b EXCEPT !.now = now]
  IN IF withinDoubleTap(now, b.lastTapRef) THEN activate(b1) ELSE announce(b1)

InitButton ==
  /\ InitHook
  /\ supported
  /\ sl = SlOff
  /\ pg = PgOff
  /\ vis = VisOff
  /\ pn = PnOff
  /\ \E s \in StartTimes : bt = [BtOff EXCEPT !.on = TRUE, !.now = s]
  /\ cam = CamOff

\* The user taps the button: one click event, handled by handleTap.
Tap ==
  /\ bt.on
  /\ Len(bt.taps) < MaxTaps
  /\ \E g \in Gaps :
       /\ bt' = handleTap(bt, bt.now + g)
       /\ IF "speak" \in bt'.taps[Len(bt'.taps)].calls
            THEN Become(speak(Cur, ButtonLabel)) /\ Op("speak", Len(utts) + 1)
            ELSE Become(Cur) /\ Op("tap", 0)
  /\ UNCHANGED <<supported, vis, pn, cam>>

NextButton ==
  \/ Tap
  \/ UtteranceEnd
  \/ UtteranceCancelled

SpecButton == InitButton /\ [][NextButton]_vars

\* ---- useCamera ----------------------------------------------------------

\* fallbackErr.message of a refused fallback request; it may be empty.
CameraErrors == {"Permission denied", ""}

\* The hook right after its effect has called setupCamera(): the rear-camera
\* request is pending. error "" is null and stream / srcObject 0 is null.
CamInst ==
  [pc |-> "rear", mounted |-> TRUE, videoRef |-> TRUE, isReady |-> FALSE,
   error |-> "", stream |-> 0, srcObject |-> 0, onloadedmetadata |-> FALSE,
   failed |-> {}, shots |-> <<>>]

\* A state setter of a component that is no longer mounted changes nothing.
setStream(c, i, m) ==
  IF c.insts[i].mounted THEN [c EXCEPT !.insts[i].stream = m] ELSE c

setIsReady(c, i, b) ==
  IF c.insts[i].mounted THEN [c EXCEPT !.insts[i].isReady = b] ELSE c

setError(c, i, e) ==
  IF c.insts[i].mounted THEN [c EXCEPT !.insts[i].error = e] ELSE c

\* attachStream(mediaStream)
attachStream(c, i, m) ==
  LET c1 == setStream(c, i, m)
  IN IF c1.insts[i].videoRef
     THEN [c1 EXCEPT !.insts[i].srcObject = m, !.insts[i].onloadedmetadata = TRUE]
     ELSE c1

\* getUserMedia resolved with a new stream whose track is live; the
\* continuation of setupCamera attaches it.
granted(c, i) ==
  LET c1 == [c EXCEPT !.streams = Append(@, [st |-> "live", by |-> i]),
                      !.insts[i].pc = "attached"]
  IN attachStream(c1, i, Len(c1.streams))

\* The rear-camera request was rejected: the fallback request is made.
rearRefused(c, i) ==
  [c EXCEPT !.insts[i].pc = "fallback", !.insts[i].failed = @ \cup {"rear"}]

\* setError(fallbackErr.message || 'Failed to access camera')
fallbackRefused(c, i, message) ==
  LET c1 == [c EXCEPT !.insts[i].pc = "failed",
                      !.insts[i].failed = @ \cup {"fallback"}]
  IN setError(c1, i, IF message # "" THEN message ELSE "Failed to access camera")

\* videoRef.current.onloadedmetadata: play(); setIsReady(true); setError(null)
onloadedmetadata(c, i) == setError(setIsReady(c, i, TRUE), i, "")

\* The cleanup of the effect stops the tracks of videoRef.current.srcObject;
\* the element is gone afterwards.
cameraCleanup(c, i) ==
  LET m == c.insts[i].srcObject
      c1 == IF c.insts[i].videoRef /\ m # 0
            THEN [c EXCEPT !.streams[m].st = "stopped"]
            ELSE c
  IN [c1 EXCEPT !.insts[i].mounted = FALSE, !.insts[i].videoRef = FALSE]

\* captureImage(): null without the element, before isReady and without a 2d
\* context, else the JPEG data URL of the current frame.
captureImage(inst, ctx) ==
  IF ~inst.videoRef \/ ~inst.isReady THEN "null"
  ELSE IF ~ctx THEN "null"
  ELSE "image"

InitCamera ==
  /\ InitHook
  /\ supported
  /\ sl = SlOff
  /\ pg = PgOff
  /\ vis = VisOff
  /\ pn = PnOff
  /\ bt = BtOff
  /\ cam = CamOff

camFrame == <<speechVars, vis, pn, bt>>

\* The component is mounted (again): a fresh hook runs its effect.
MountCamera ==
  /\ Len(cam.insts) < MaxMounts
  /\ \A i \in DOMAIN cam.insts : ~cam.insts[i].mounted
  /\ cam' = [cam EXCEPT !.insts = Append(@, CamInst)]
  /\ UNCHANGED camFrame

UnmountCamera ==
  \E i \in DOMAIN cam.insts :
    /\ cam.insts[i].mounted
    /\ cam' = cameraCleanup(cam, i)
    /\ UNCHANGED camFrame

RearGranted ==
  \E i \in DOMAIN cam.insts :
    /\ cam.insts[i].pc = "rear"
    /\ cam' = granted(cam, i)
    /\ UNCHANGED camFrame

RearRefused ==
  \E i \in DOMAIN cam.insts :
    /\ cam.insts[i].pc = "rear"
    /\ cam' = rearRefused(cam, i)
    /\ UNCHANGED camFrame

FallbackGranted ==
  \E i \in DOMAIN cam.insts :
    /\ cam.insts[i].pc = "fallback"
    /\ cam' = granted(cam, i)
    /\ UNCHANGED camFrame

FallbackRefused ==
  \E i \in DOMAIN cam.insts, message \in CameraErrors :
    /\ cam.insts[i].pc = "fallback"
    /\ cam' = fallbackRefused(cam, i, message)
    /\ UNCHANGED camFrame

\* The video element has loaded the metadata of the attached, live stream.
LoadedMetadata ==
  \E i \in DOMAIN cam.insts :
    /\ cam.insts[i].onloadedmetadata
    /\ cam.insts[i].mounted
    /\ ~cam.insts[i].isReady
    /\ cam.streams[cam.insts[i].srcObject].st = "live"
    /\ cam' = onloadedmetadata(cam, i)
    /\ UNCHANGED camFrame

CaptureImage ==
  \E i \in DOMAIN cam.insts, ctx \in BOOLEAN :
    /\ cam.insts[i].mounted
    /\ Len(cam.insts[i].shots) < MaxShots
    /\ cam' = [cam EXCEPT !.insts[i].shots = Append(@, captureImage(cam.insts[i], ctx))]
    /\ UNCHANGED camFrame

NextCamera ==
  \/ MountCamera
  \/ UnmountCamera
  \/ RearGranted
  \/ RearRefused
  \/ FallbackGranted
  \/ FallbackRefused
  \/ LoadedMetadata
  \/ CaptureImage

SpecCamera == InitCamera /\ [][NextCamera]_vars

\* No platform event is outstanding: nothing more happens unless a caller
\* makes another call.
Quiescent == ~ENABLED (Platform \/ UtteranceCancelled)

\* The step in which the promise of listen() call i is rejected.
RejectionOf(i) ==
  /\ calls[i].outcome = "pending"
  /\ calls'[i].outcome \notin Transcripts \cup {"pending"}

\* C11: every failure of listen() rejects with a reason string, and the
\* state is IDLE at the moment the rejection is issued.
C11_RejectsInIdle ==
  [][\A i \in DOMAIN calls : RejectionOf(i) => voiceState' = "IDLE"]_vars

\* C12: there is no terminal state: once the operation in progress has
\* completed and the caller makes no further call, the state is IDLE (it
\* does not rest in PROCESSING after a transcript was delivered).
C12_RestsInIdle == Quiescent => voiceState = "IDLE"

\* C13: every listen() call settles: once nothing is outstanding any more,
\* no listen() promise is still pending, also for a call that was cancelled
\* by stopListening() or superseded by a later speak() or listen().
C13_EveryListenSettles ==
  Quiescent => \A i \in DOMAIN calls : calls[i].outcome # "pending"

\* A step in which a caller invokes speak().
SpeakStep == lastOp'.op = "speak" /\ Len(utts') = Len(utts) + 1

\* C14: right after speak(text), from any state, the state is SPEAKING, every
\* recognition attempt that was active has been aborted with its handlers
\* detached, every utterance that was in flight has been cancelled, and the
\* new utterance is the one being synthesized.
C14_SpeakSupersedes ==
  [][SpeakStep
       => /\ voiceState' = "SPEAKING"
          /\ \A i \in DOMAIN calls :
               calls[i].rec \in {"starting", "running"}
                 => (calls'[i].rec = "aborting" /\ ~calls'[i].attached)
          /\ \A u \in DOMAIN utts : utts'[u].st # "active"
          /\ utts'[Len(utts')].st = "active"]_vars

\* The reasons the specification names as retryable.
RetryableReasons == {"no-speech", "network", "not-allowed"}

\* C15: speakAndListen retries only after a retryable reason and within the
\* budget: every cycle after the first follows a retryable failure, and a
\* failure with any other reason ('Speech recognition not supported',
\* 'audio-capture', ...) is thrown at once; when it is the first failure
\* exactly one speak+listen cycle was performed.
C15_NoRetryOnOtherReasons ==
  sl.pc \notin {"off", "start"}
    => LET other == sl.reasons \ RetryableReasons
       IN /\ other # {} => (sl.pc = "thrown" /\ other = {sl.result})
          /\ (sl.pc = "thrown" /\ sl.reasons # {})
               => (sl.speaks = sl.i + 1 /\ sl.listens = sl.i + 1)
          /\ (sl.reasons # {} /\ sl.reasons \subseteq other)
               => (sl.i = 0 /\ sl.speaks = 1 /\ sl.listens = 1)
          /\ sl.i > 0 => (sl.reasons \cap RetryableReasons # {} /\ sl.i <= sl.retries)

C15_Witness ==
  /\ sl.pc = "thrown"
  /\ sl.result = "Speech recognition not supported"
  /\ sl.retries = DefaultRetries
  /\ sl.speaks = 1
  /\ sl.listens = 1

\* C16: on the navigate and find pages, when every listen() fails, the page
\* logic makes only a bounded number of listen attempts: no more than the
\* voice system's retry budget of DefaultRetries + 1.
C16_PageRetriesBounded ==
  (pg.pc # "off" /\ \A i \in DOMAIN calls : calls[i].outcome \notin Transcripts)
    => pg.listens <= DefaultRetries + 1

\* The HTTP status analyzeScene met in request h: the status of the SDK's
\* answer (200 when it resolved) or of the fetch response; 0 when there
\* was none.
Answer(h) ==
  IF vis.variant = "direct" THEN h.prov.status
  ELSE IF h.got.kind = "response" THEN h.got.status
  ELSE 0

Answers == [k \in DOMAIN vis.hist |-> Answer(vis.hist[k])]

\* The text of a successful answer ("" when the answer is not one).
AnswerText(h) ==
  IF vis.variant = "direct" THEN (IF h.prov.kind = "ok" THEN h.prov.text ELSE "")
  ELSE IF h.got.kind = "response" /\ h.got.json THEN h.got.text
  ELSE ""

InvalidKeyMessages == {MsgKeyInvalid, MsgKeyMissing}

\* C17: with the default retries, analyzeScene meeting 429, 429 and then a
\* 200 with a text makes exactly 3 requests with exactly 2 backoff delays
\* and returns that text (after each 429 it is waiting or asking again, one
\* delay per 429); meeting a 401 first it makes exactly 1 request, waits for
\* no delay and returns the invalid-key message.
C17_BackoffThenSuccess ==
  /\ (vis.retries = DefaultVisRetries /\ Answers \in {<<429>>, <<429, 429>>})
       => /\ vis.pc \in {"backoff", "request"}
          /\ vis.requests = Len(Answers)
          /\ Len(vis.delays) = Len(Answers)
  /\ (/\ vis.retries = DefaultVisRetries
      /\ Answers = <<429, 429, 200>>
      /\ AnswerText(vis.hist[3]) \in SceneTexts)
       => /\ vis.pc = "done"
          /\ vis.requests = 3
          /\ Len(vis.delays) = 2
          /\ vis.result = AnswerText(vis.hist[3])
  /\ (Answers # <<>> /\ Answers[1] = 401)
       => /\ vis.pc = "done"
          /\ vis.requests = 1
          /\ vis.delays = <<>>
          /\ vis.result \in InvalidKeyMessages

C17_Witness ==
  /\ vis.pc = "done"
  /\ vis.retries = DefaultVisRetries
  /\ Answers = <<429, 429, 200>>
  /\ vis.requests = 3
  /\ Len(vis.delays) = 2
  /\ vis.result \in SceneTexts

\* Every request of the running call reached its destination and was
\* answered in time: no transport failure took part.
NoTransportFault ==
  \A k \in DOMAIN vis.hist :
    vis.variant = "proxy"
      => (vis.hist[k].reached /\ vis.hist[k].sent # <<>>
          /\ vis.hist[k].got = vis.hist[k].sent[1])

\* C18: with a missing or invalid provider credential (and a well-formed
\* request, and no transport failure) analyzeScene never retries: it makes
\* at most one request, waits for no backoff delay and returns the
\* invalid-key message, directly and through the /api/vision proxy.
C18_ConfigErrorNotRetried ==
  (/\ vis.pc \notin {"off", "start"}
   /\ vis.cred \in {"missing", "invalid"}
   /\ vis.req.image /\ vis.req.prompt
   /\ vis.retries >= 0
   /\ NoTransportFault)
    => /\ vis.requests <= 1
       /\ vis.delays = <<>>
       /\ vis.pc = "done" => vis.result \in InvalidKeyMessages

\* The provider's error says that the caller is rate limited.
ReportsRateLimit(err) == err \in {ProviderError(429, {"429", "quota"}), ProviderError(0, {"429"})}

\* C19: every request that reaches POST /api/vision gets exactly one
\* response, a JSON body: {text} with status 200 when the provider
\* succeeded, else {error}: 401 when the credential is missing, 429 when the
\* provider reported rate limiting, 500 for any other provider failure.
C19_OneResponsePerRequest ==
  \A k \in DOMAIN vis.hist :
    LET h == vis.hist[k] IN
    h.reached
      => /\ Len(h.sent) = 1
         /\ LET r == h.sent[1] IN
            /\ r.kind = "response" /\ r.json
            /\ IF r.status = 200 THEN r.text # "" /\ r.error = ""
                                 ELSE r.error # "" /\ r.text = ""
            /\ h.prov.kind = "ok" => r.status = 200
            /\ vis.cred = "missing" => r.status = 401
            /\ (h.prov.kind = "err" /\ ReportsRateLimit(h.prov)) => r.status = 429
            /\ (h.prov.kind = "err" /\ ~ReportsRateLimit(h.prov)) => r.status = 500

C19_Witness ==
  /\ vis.pc = "done"
  /\ Len(vis.hist) = 3
  /\ \A k \in 1..3 : vis.hist[k].reached /\ Len(vis.hist[k].sent) = 1
  /\ vis.hist[1].sent[1].status = 429
  /\ vis.hist[2].sent[1].status = 500
  /\ vis.hist[3].sent[1].status = 200

\* The text holds an alternative of one of the patterns, or a digit.
HasNumberToken(text) ==
  \E k \in DOMAIN text : \E n \in 0..5 : toLowerCase(text)[k] \in Tokens[n]

HasDigit(text) ==
  \E k \in DOMAIN text : text[k] \in DOMAIN DigitValue \cup {DevaSeven}

\* C20: parseSpokenNumber returns 2 for each of the inputs "2", "two", "do",
\* the Devanagari word for two and "second", and null for every input that
\* holds no number token and no digit.
C20_ParsesTwo ==
  pn.pc = "done"
    => /\ pn.text \in {<<"2">>, <<"two">>, <<"do">>, <<DevaDo>>, <<"second">>}
            => pn.result = Num(2)
       /\ (~HasNumberToken(pn.text) /\ ~HasDigit(pn.text)) => pn.result = Null

\* C21: for every input parseSpokenNumber returns null or an integer of the
\* menu range 0..5, never a value outside it.
C21_InMenuRange ==
  pn.pc = "done" => (pn.result = Null \/ pn.result.n \in 0..5)

\* What tap k of the button did, and the time between tap k - 1 and tap k.
Spoke(k) == bt.taps[k].calls = {"speak"}

Activated(k) == bt.taps[k].calls = {"onActivate"}

SincePrevious(k) == bt.taps[k].at - bt.taps[k - 1].at

\* C22: the first tap calls speak(label) and does not activate; a tap less
\* than 500 ms after a speaking tap calls onActivate and does not speak; a
\* tap 500 ms or more after it speaks again and does not activate.  Every
\* speaking tap hands one utterance of the label to the synthesizer.
C22_DoubleTap ==
  /\ bt.taps # <<>> => Spoke(1)
  /\ \A k \in 2..Len(bt.taps) :
       Spoke(k - 1) => IF SincePrevious(k) < 500 THEN Activated(k) ELSE Spoke(k)
  /\ bt.on => /\ Len(utts) = Cardinality({k \in DOMAIN bt.taps : Spoke(k)})
              /\ \A u \in DOMAIN utts : utts[u].text = ButtonLabel

C22_Witness ==
  /\ Len(bt.taps) = 3
  /\ Spoke(1)
  /\ SincePrevious(2) = 500 /\ Spoke(2)
  /\ SincePrevious(3) = 499 /\ Activated(3)
  /\ Len(utts) = 2

\* C30: with every tap at a time of 500 ms or later, each tap triggers
\* exactly one of speak(label) and onActivate; onActivate is triggered only
\* by a tap that follows a speaking tap by less than 500 ms; the tap after
\* an activation always speaks; three taps within 500 ms give speak,
\* activate, speak.
C30_ExactlyOnePerTap ==
  (\A k \in DOMAIN bt.taps : bt.taps[k].at >= 500)
    => /\ \A k \in DOMAIN bt.taps : Spoke(k) \/ Activated(k)
       /\ \A k \in DOMAIN bt.taps :
            Activated(k) => (k > 1 /\ Spoke(k - 1) /\ SincePrevious(k) < 500)
       /\ \A k \in 2..Len(bt.taps) : Activated(k - 1) => Spoke(k)
       /\ (Len(bt.taps) >= 3 /\ bt.taps[3].at - bt.taps[1].at < 500)
            => (Spoke(1) /\ Activated(2) /\ Spoke(3))

C30_Witness ==
  /\ Len(bt.taps) = 3
  /\ bt.taps[3].at - bt.taps[1].at < 500
  /\ Spoke(1) /\ Activated(2) /\ Spoke(3)

\* The speak(text) and listen() promises of the running speakAndListen call
\* that are not settled yet.
SlSpeaking == {u \in DOMAIN utts : utts[u].text = PromptText /\ utts[u].st # "fired"}

SlListening == {i \in DOMAIN calls : calls[i].outcome = "pending"}

\* C23: speakAndListen is strictly sequential: while it awaits listen() the
\* speak() of that cycle (and of every earlier one) has resolved, while it
\* awaits speak() every listen() made so far has rejected, and a speak and
\* a listen of the call are never outstanding together.
C23_StrictlySequential ==
  sl.pc \notin {"off", "start"}
    => /\ ~(SlSpeaking # {} /\ SlListening # {})
       /\ Cardinality(SlSpeaking) <= 1
       /\ Cardinality(SlListening) <= 1
       /\ sl.pc = "awaitListen"
            => (SlSpeaking = {} /\ sl.listens = sl.speaks /\ SlListening = {sl.call})
       /\ sl.pc = "awaitSpeak"
            => /\ SlSpeaking = {sl.utt}
               /\ sl.speaks = sl.listens + 1
               /\ \A i \in DOMAIN calls : calls[i].outcome \notin Transcripts \cup {"pending"}
       /\ sl.listens = Len(calls)

C23_Witness ==
  /\ sl.pc = "awaitListen"
  /\ sl.i = 1
  /\ Len(calls) = 2
  /\ calls[1].outcome = "no-speech"
  /\ SlSpeaking = {}

\* C24: for every retries >= 0 and every sequence of listen outcomes,
\* speakAndListen performs at most retries + 1 speak+listen cycles, and when
\* a listen() succeeds it returns that transcript at once: the successful
\* listen() is the last one and no further speak() follows it.
C24_BudgetAndEarlyReturn ==
  (sl.pc \notin {"off", "start"} /\ sl.retries >= 0)
    => /\ sl.speaks <= sl.retries + 1
       /\ sl.listens <= sl.retries + 1
       /\ \A i \in DOMAIN calls :
            calls[i].outcome \in Transcripts
              => /\ i = Len(calls)
                 /\ sl.pc = "returned"
                 /\ sl.result = calls[i].outcome
                 /\ sl.speaks = i /\ sl.listens = i
                 /\ Cardinality({u \in DOMAIN utts : utts[u].text = PromptText}) = i
       /\ sl.pc = "returned" => calls[Len(calls)].outcome \in Transcripts

C24_Witness ==
  /\ sl.pc = "returned"
  /\ sl.retries = DefaultRetries
  /\ sl.i = 1
  /\ sl.result \in Transcripts
  /\ calls[1].outcome = "no-speech"

\* C25: when speakAndListen fails with retries >= 0 it throws the reason of
\* the last failed listen(); the Error 'Max retries reached' is thrown only
\* with negative retries, and then no speak() and no listen() was made.
C25_ThrowsLastReason ==
  sl.pc = "thrown"
    => IF sl.retries >= 0
         THEN /\ calls # <<>>
              /\ sl.result = calls[Len(calls)].outcome
              /\ sl.result \notin Transcripts \cup {"pending", "Max retries reached"}
         ELSE /\ sl.result = "Max retries reached"
              /\ sl.speaks = 0 /\ sl.listens = 0
              /\ calls = <<>> /\ utts = <<>>

C25_Witness ==
  /\ sl.pc = "thrown"
  /\ sl.retries = 1
  /\ Len(calls) = 2
  /\ calls[1].outcome = "no-speech"
  /\ sl.result = "network"

\* C26: a recognizer result is applied only if the state is LISTENING when it
\* arrives: then the transcript is stored, the state becomes PROCESSING and
\* the promise of that listen() holds the transcript; a result, error or end
\* event that arrives in any other state changes neither the state nor the
\* stored transcript.
C26_ResultOnlyWhenListening ==
  [][\A i \in DOMAIN calls :
       /\ \A t \in Transcripts :
            RecResultOf(i, t)
              => IF voiceState = "LISTENING"
                   THEN /\ transcript' = t
                        /\ voiceState' = "PROCESSING"
                        /\ calls'[i].outcome = t
                   ELSE voiceState' = voiceState /\ transcript' = transcript
       /\ ((RecEndOf(i) \/ \E e \in RecErrors \cup {"aborted"} : RecErrorOf(i, e))
             /\ voiceState # "LISTENING")
            => (voiceState' = voiceState /\ transcript' = transcript)]_vars

C26_Witness ==
  /\ voiceState = "PROCESSING"
  /\ lastOp.op = "event"
  /\ transcript \in Transcripts
  /\ \E i \in DOMAIN calls : calls[i].outcome = transcript /\ calls[i].rec = "ending"
  /\ \E j \in DOMAIN calls : calls[j].rec = "running" /\ calls[j].attached

\* C27: in listen() the permission check completes before a recognizer is
\* created or started: a call whose check is pending or failed has no
\* recognizer (none created, none started, no handler, no timer, not in
\* recognitionRef), and without runtime support no call ever has one.
C27_PermissionBeforeRecognizer ==
  \A i \in DOMAIN calls :
    /\ calls[i].perm \in {"pending", "denied"}
         => /\ calls[i].rec = "none"
            /\ ~calls[i].attached
            /\ calls[i].timer = "none"
            /\ recognitionRef # i
    /\ calls[i].perm = "denied" => calls[i].outcome = "audio-capture"
    /\ ~supported => (calls[i].rec = "none" /\ ~calls[i].attached /\ recognitionRef = 0)

C27_Witness ==
  /\ Len(calls) = 2
  /\ calls[1].perm = "denied"
  /\ calls[1].rec = "none"
  /\ calls[2].perm = "granted"
  /\ calls[2].rec = "running"

\* Every string analyzeScene can return.
VisionStrings ==
  SceneTexts \cup {MsgKeyMissing, MsgKeyInvalid, MsgRateLimit, MsgUnavailable,
                   MsgNoAnalysis, MsgBadRequest, MsgTimedOut, MsgNetwork,
                   MsgFallThrough}

C29_CredentialBeforeBody ==
  \A k \in DOMAIN vis.hist :
    LET h == vis.hist[k]
        bodyOk == vis.req.image /\ vis.req.prompt
    IN h.reached
         => /\ vis.cred = "missing"
                 => (h.sent = <<Respond(401, TRUE, MsgKeyMissing, "")>> /\ h.prov = NoProvider)
            /\ (vis.cred # "missing" /\ ~bodyOk)
                 => (h.sent = <<Respond(400, TRUE, MsgBadRequest, "")>> /\ h.prov = NoProvider)
            /\ h.prov # NoProvider <=> (vis.cred # "missing" /\ bodyOk)

C29_Witness ==
  /\ vis.pc = "done"
  /\ vis.variant = "proxy"
  /\ vis.cred = "valid"
  /\ ~vis.req.image
  /\ vis.hist # <<>>
  /\ vis.hist[1].reached
  /\ vis.hist[1].sent[1].status = 400
  /\ vis.hist[1].prov = NoProvider

\* C31: after the user has left a page, the voice logic started for it
\* issues no further speak() or listen() call and starts no further vision
\* analysis, whatever point it had reached.
C31_NoCallsAfterLeaving ==
  [][(pg.pc # "off" /\ ~pg.isActive)
       => /\ pg'.speaks = pg.speaks
          /\ pg'.listens = pg.listens
          /\ pg'.analyses = pg.analyses]_vars

\* A transcript in which the language page finds one of the digits 1..5.
HasSelection(t) == PartsOf(t) \cap DOMAIN MenuLanguages # {}

\* C32: on the language page the stored preference is written only after a
\* "yes" and a recognized selection 1..5, at most once, and then to one of
\* Hindi, Marathi, Tamil, Telugu, Bengali; otherwise it keeps its value; and
\* once the page logic has finished the application is on the home page.
C32_LanguageWrittenOnSelection ==
  pg.run = "language" =>
    /\ Len(pg.written) <= 1
    /\ pg.written # <<>> =>
         /\ Len(pg.answers) = 2
         /\ "yes" \in PartsOf(pg.answers[1])
         /\ HasSelection(pg.answers[2])
         /\ pg.written[1] \in {MenuLanguages[c] : c \in DOMAIN MenuLanguages}
         /\ pg.stored = pg.written[1]
    /\ pg.written = <<>> => pg.stored = PgOff.stored
    /\ pg.pc = "done" => pg.page = "home" /\ ~pg.isActive

\* The user answered "yes" and "3": Tamil is stored and the page went home.
C32_Witness ==
  /\ pg.run = "language"
  /\ pg.pc = "done"
  /\ pg.answers = <<"yes", "3">>
  /\ pg.written = <<"Tamil">>
  /\ pg.stored = "Tamil"
  /\ pg.page = "home"

\* The user answered "yes" and "0": nothing is stored and the page went home.
C32_WitnessCancel ==
  /\ pg.run = "language"
  /\ pg.pc = "done"
  /\ pg.answers = <<"yes", "0">>
  /\ pg.written = <<>>
  /\ pg.page = "home"

\* C33: once a camera hook is unmounted no track of a stream it obtained is
\* left running, also when a request was still pending at the unmount; and
\* its error value is set only when both the rear-camera request and the
\* fallback request have failed.
C33_NoTrackAfterUnmount ==
  /\ \A m \in DOMAIN cam.streams :
       ~cam.insts[cam.streams[m].by].mounted => cam.streams[m].st = "stopped"
  /\ \A i \in DOMAIN cam.insts :
       cam.insts[i].error # "" => cam.insts[i].failed = {"rear", "fallback"}

\* The numbers of which the text holds an alternative as a word of its own,
\* with the start of the text, its end or a space on either side.
TokensHeld(text) ==
  LET lower == trim(toLowerCase(text))
      apart(k) == k \notin DOMAIN lower \/ lower[k] = " "
  IN {n \in 0..5 : \E k \in DOMAIN lower :
        lower[k] \in Tokens[n] /\ apart(k - 1) /\ apart(k + 1)}

\* The first number of the order 1, 2, 3, 4, 5, 0 that is in the set held.
FirstInOrder(held) ==
  PatternOrder[CHOOSE j \in DOMAIN PatternOrder :
                 /\ PatternOrder[j] \in held
                 /\ \A i \in 1..(j - 1) : PatternOrder[i] \notin held]

\* The result was decided by lower.match(/\d/): no pattern matched and the
\* text holds a digit.
FallbackUsed(text) ==
  LET lower == trim(toLowerCase(text))
  IN /\ \A n \in 0..5 : ~matches(lower, n)
     /\ \E k \in DOMAIN lower : lower[k] \in DOMAIN DigitValue

\* C34: an input that holds tokens of several numbers yields the number that
\* comes first in the order 1, 2, 3, 4, 5, 0 wherever the tokens stand, so an
\* input with a zero/cancel token and a token of 1..5 never yields 0; the
\* first-digit fallback decides only when the input holds no token.
C34_FirstInPatternOrder ==
  pn.pc = "done"
    => /\ Cardinality(TokensHeld(pn.text)) >= 2
            => pn.result = Num(FirstInOrder(TokensHeld(pn.text)))
       /\ (0 \in TokensHeld(pn.text) /\ TokensHeld(pn.text) \cap (1..5) # {})
            => pn.result # Num(0)
       /\ TokensHeld(pn.text) # {} => ~FallbackUsed(pn.text)

====
